---- MODULE Spec2Model ----
(***************************************************************************)
(* Model of two pieces of go-mysql-server:                                 *)
(*   - sql/analyzer/process_truncate.go: the analyzer pass that validates  *)
(*     TRUNCATE and rewrites an unconditional DELETE into a TRUNCATE;      *)
(*   - sql/walk.go: the depth-first expression / node walkers.             *)
(* The catalog, the trigger source and the visitors are the environment:   *)
(* the catalog is built by DDL-like actions, every fallible lookup may     *)
(* fail at the call, and every visitor answer is chosen at the call.       *)
(***************************************************************************)
EXTENDS Integers, Sequences, FiniteSets

VARIABLES
    catalog,   \* a.Catalog.AllDatabases(): sequence of databases
    pc,        \* "build" while the catalog is set up, "done" after the pass ran
    node,      \* the plan node handed to processTruncate
    ctxDb,     \* ctx.GetCurrentDatabase()
    result,    \* what processTruncate returned: [node, err]
    calls,     \* the fallible lookups the pass performed, with their answers
    tree,      \* the expression / node tree handed to a walker
    mode,      \* which walker runs: Walk, WalkWithNode, Inspect, InspectNode
    stack,     \* the walker's call stack, innermost frame first
    log        \* the calls made on visitors, in order

vars == <<catalog, pc, node, ctxDb, result, calls, tree, mode, stack, log>>

-----------------------------------------------------------------------------
(* Bounds of the model *)

\* databases, tables, foreign keys and triggers of a catalog, counted together
MaxObjects == 4
\* nodes of a walked tree
MaxNodes == 4

-----------------------------------------------------------------------------
(* Identifiers *)

DbNames == {"d", "D", "e"}
TableNames == {"t", "T", "u"}
TargetNames == {"t", "T"}
RefNames == {"T", "u"}
Qualifiers == {"", "D", "e"}
CurrentDbs == {"E"}

\* strings.ToLower on the identifiers of the model
ToLower(s) ==
    CASE s = "T" -> "t"
      [] s = "D" -> "d"
      [] s = "U" -> "u"
      [] s = "E" -> "e"
      [] OTHER -> s

\* sqlparser.DeleteStr
DeleteStr == "delete"

-----------------------------------------------------------------------------
(* Nodes, errors *)

NilNode == [kind |-> "nil"]
NoErr == [kind |-> "nil", args |-> <<>>]

\* a column schema: only the AutoIncrement flag of each column matters
Schemas == {<<FALSE, FALSE>>, <<FALSE, TRUE>>}

\* *plan.ResolvedTable over a table that may or may not be truncatable
ResolvedTables ==
    [kind : {"ResolvedTable"}, name : TargetNames, schema : Schemas,
     truncatable : BOOLEAN]

\* any other child of a DeleteFrom / Truncate (a filter, a join, ...)
OtherChild == [kind |-> "Other"]

Children == ResolvedTables \cup {OtherChild}

\* plan.NewTruncate(db, tbl)
NewTruncate(db, tbl) == [kind |-> "Truncate", db |-> db, child |-> tbl]

DeleteNodes == [kind : {"DeleteFrom"}, child : Children]
TruncateNodes ==
    {NewTruncate(q, c) : q \in Qualifiers,
                         c \in {x \in Children : x.kind = "ResolvedTable" => x.schema = <<FALSE, FALSE>>}}
OtherNode == [kind |-> "Other"]
InputNodes == DeleteNodes \cup TruncateNodes \cup {OtherNode}

\* the error a failed catalog or trigger lookup returns; n is the call's number
LookupError(n) == [kind |-> "LookupError", args |-> <<n>>]
\* sql.ErrTableNotFound.New(name)
ErrTableNotFound(name) == [kind |-> "ErrTableNotFound", args |-> <<name>>]
\* sql.ErrTruncateReferencedFromForeignKey.New(table, fk, referencing table)
ErrTruncateReferencedFromForeignKey(tableName, fkName, other) ==
    [kind |-> "ErrTruncateReferencedFromForeignKey",
     args |-> <<tableName, fkName, other>>]
\* the error of plan.GetTruncatable on a node that cannot be truncated
ErrTruncateNotSupported == [kind |-> "ErrTruncateNotSupported", args |-> <<>>]

-----------------------------------------------------------------------------
(* Fallible lookups.  A fault names the lookup that fails (at = 0: none)   *)
(* and how; each lookup made is appended to the log with its answer.       *)

NoFault == [at |-> 0, how |-> "err"]

Answer(c, op, fault) ==
    IF Len(c) + 1 = fault.at
    THEN IF op = "GetTableInsensitive" THEN fault.how ELSE "err"
    ELSE "ok"

Call(c, op, fault) == Append(c, [op |-> op, ans |-> Answer(c, op, fault)])

Last(c) == c[Len(c)]

-----------------------------------------------------------------------------
(* The catalog: databases with table names, tables, foreign keys, triggers *)

\* db.GetTableNames(ctx), when it succeeds
TableNamesOf(db) == [j \in 1..Len(db.tables) |-> db.tables[j].name]

\* the target of a trigger: *plan.UnresolvedTable, or a node of another type
UnresolvedTable(name, database) ==
    [kind |-> "UnresolvedTable", name |-> name, database |-> database]
OtherTarget == [kind |-> "Other"]
\* the triggers a database may hold: delete triggers on the target name
\* (unqualified or qualified), on another table, or on a target that is no
\* plain table reference; insert and update triggers on the target name
Triggers ==
    [event : {"delete"},
     table : {UnresolvedTable("T", q) : q \in Qualifiers}
                 \cup {UnresolvedTable("u", ""), OtherTarget}]
      \cup [event : {"insert", "update"},
            table : {UnresolvedTable("T", ""), OtherTarget}]

-----------------------------------------------------------------------------
(* validateTruncate *)

\* plan.GetTruncatable(tbl): a resolved table over a truncatable table
GetTruncatable(tbl) ==
    IF tbl.kind = "ResolvedTable" /\ tbl.truncatable
    THEN [name |-> tbl.name, err |-> NoErr]
    ELSE [name |-> "", err |-> ErrTruncateNotSupported]

\* the database validateTruncate scans
NormalizeDbName(dbName, cur) ==
    IF dbName = "" THEN ToLower(cur) ELSE ToLower(dbName)

\* faulty variant: the referenced table is compared as written
ReferencesTableExactCase(fk, tableName) == fk.refTable = tableName

\* whether a foreign key references the table being truncated
ReferencesTable(fk, tableName) == ToLower(fk.refTable) = tableName

\* for _, fk := range fks: the index of the first key that references
\* tableName, 0 when none does
RECURSIVE FirstReferencingKey(_, _, _)
FirstReferencingKey(fks, k, tableName) ==
    IF k > Len(fks) THEN 0
    ELSE IF ReferencesTable(fks[k], tableName) THEN k
    ELSE FirstReferencingKey(fks, k + 1, tableName)

\* what validateTruncate returns
Validated(ok, err, c) == [ok |-> ok, err |-> err, calls |-> c, exit |-> TRUE]
\* the scan goes on
Continue(c) == [ok |-> TRUE, err |-> NoErr, calls |-> c, exit |-> FALSE]

\* faulty variant: a failed db.GetTableNames is reported as "does not apply"
TableNamesFailedNotApplicable(c) == Validated(FALSE, LookupError(Len(c)), c)

\* validateTruncate's return on a failed db.GetTableNames
TableNamesFailed(c) == Validated(TRUE, LookupError(Len(c)), c)

\* faulty variant: a referencing foreign key is reported as an unexpected error
ReferencedFromForeignKeyUnexpected(tableName, fk, other, c) ==
    Validated(TRUE, ErrTruncateReferencedFromForeignKey(tableName, fk.name, other), c)

\* validateTruncate's return on a foreign key that references the table
ReferencedFromForeignKey(tableName, fk, other, c) ==
    Validated(FALSE, ErrTruncateReferencedFromForeignKey(tableName, fk.name, other), c)

\* for _, tableNameToCheck := range tableNames
RECURSIVE CheckTables(_, _, _, _, _)
CheckTables(db, j, tableName, c, fault) ==
    IF j > Len(db.tables) THEN Continue(c)
    ELSE
      LET tableToCheck == db.tables[j] IN
      IF ToLower(tableToCheck.name) = tableName
      THEN CheckTables(db, j + 1, tableName, c, fault)
      ELSE
        LET c1 == Call(c, "GetTableInsensitive", fault) IN
        IF Last(c1).ans = "err" THEN Validated(TRUE, LookupError(Len(c1)), c1)
        ELSE IF Last(c1).ans = "missing"
        THEN Validated(TRUE, ErrTableNotFound(tableToCheck.name), c1)
        ELSE IF ~tableToCheck.fkTable
        THEN CheckTables(db, j + 1, tableName, c1, fault)
        ELSE
          LET c2 == Call(c1, "GetForeignKeys", fault) IN
          IF Last(c2).ans # "ok" THEN Validated(TRUE, LookupError(Len(c2)), c2)
          ELSE
            LET k == FirstReferencingKey(tableToCheck.fks, 1, tableName) IN
            IF k > 0
            THEN ReferencedFromForeignKey(tableName, tableToCheck.fks[k],
                                          tableToCheck.name, c2)
            ELSE CheckTables(db, j + 1, tableName, c2, fault)

\* for _, db := range a.Catalog.AllDatabases()
RECURSIVE CheckDatabases(_, _, _, _, _, _)
CheckDatabases(dbs, i, dbName, tableName, c, fault) ==
    IF i > Len(dbs) THEN Validated(TRUE, NoErr, c)
    ELSE IF ToLower(dbs[i].name) # dbName
    THEN CheckDatabases(dbs, i + 1, dbName, tableName, c, fault)
    ELSE
      LET c1 == Call(c, "GetTableNames", fault) IN
      IF Last(c1).ans # "ok" THEN TableNamesFailed(c1)
      ELSE
        LET r == CheckTables(dbs[i], 1, tableName, c1, fault) IN
        IF r.exit THEN r
        ELSE CheckDatabases(dbs, i + 1, dbName, tableName, r.calls, fault)

validateTruncate(dbs, cur, dbName, tbl, c, fault) ==
    LET truncatable == GetTruncatable(tbl) IN
    IF truncatable.err # NoErr THEN Validated(FALSE, truncatable.err, c)
    ELSE CheckDatabases(dbs, 1, NormalizeDbName(dbName, cur),
                        ToLower(truncatable.name), c, fault)

-----------------------------------------------------------------------------
(* deleteToTruncate *)

\* what the pass returns
Return(n, err, c) == [node |-> n, err |-> err, calls |-> c, exit |-> TRUE]

\* faulty variant: only the first column is looked at
HasAutoIncrementFirstColumn(schema) == Len(schema) > 0 /\ schema[1]

\* for _, col := range tbl.Schema(): col.AutoIncrement
HasAutoIncrement(schema) == \E i \in 1..Len(schema) : schema[i]

\* strings.ToLower(dbTblName) == tblName
NameMatches(dbTblName, tblName) == ToLower(dbTblName) = tblName

\* faulty variant: a later match replaces the first instead of ending the pass
MatchedLast(st, dbNm) ==
    [tblFound |-> TRUE, dbName |-> dbNm, ambiguous |-> FALSE]

\* one matching table name: the first is recorded, a second is ambiguous
Matched(st, dbNm) ==
    IF st.tblFound = FALSE
    THEN [tblFound |-> TRUE, dbName |-> dbNm, ambiguous |-> FALSE]
    ELSE [st EXCEPT !.ambiguous = TRUE]

\* for _, dbTblName := range dbTblNames
RECURSIVE MatchNames(_, _, _, _, _)
MatchNames(names, j, tblName, dbNm, st) ==
    IF j > Len(names) \/ st.ambiguous THEN st
    ELSE IF NameMatches(names[j], tblName)
    THEN MatchNames(names, j + 1, tblName, dbNm, Matched(st, dbNm))
    ELSE MatchNames(names, j + 1, tblName, dbNm, st)

\* the first loop over a.Catalog.AllDatabases(): find the table's database
RECURSIVE FindDatabase(_, _, _, _, _, _, _)
FindDatabase(deletePlan, dbs, i, tblName, st, c, fault) ==
    IF i > Len(dbs)
    THEN [node |-> NilNode, err |-> NoErr, calls |-> c, exit |-> FALSE,
          tblFound |-> st.tblFound, dbName |-> st.dbName]
    ELSE
      LET c1 == Call(c, "GetTableNames", fault) IN
      IF Last(c1).ans # "ok"
      THEN [node |-> NilNode, err |-> LookupError(Len(c1)), calls |-> c1,
            exit |-> TRUE, tblFound |-> st.tblFound, dbName |-> st.dbName]
      ELSE
        LET st1 == MatchNames(TableNamesOf(dbs[i]), 1, tblName, dbs[i].name, st) IN
        IF st1.ambiguous
        THEN [node |-> deletePlan, err |-> NoErr, calls |-> c1, exit |-> TRUE,
              tblFound |-> st1.tblFound, dbName |-> st1.dbName]
        ELSE FindDatabase(deletePlan, dbs, i + 1, tblName, st1, c1, fault)

\* faulty variant: triggers of every event are examined
IsAnyTrigger(trigger) == trigger.event \in {"insert", "update", DeleteStr}

\* trigger.TriggerEvent != sqlparser.DeleteStr: the trigger is skipped
IsDeleteTrigger(trigger) == trigger.event = DeleteStr

\* the trigger is on the table being deleted from
TriggerOnTable(target, dbNm, tblName, dbName, dbNameLower) ==
    /\ ToLower(target.name) = tblName
    /\ \/ (target.database = "" /\ dbNm = dbName)
       \/ ToLower(target.database) = dbNameLower

\* for _, trigger := range triggers: TRUE when the pass gives up
RECURSIVE BlockedByTrigger(_, _, _, _, _, _)
BlockedByTrigger(triggers, k, dbNm, tblName, dbName, dbNameLower) ==
    IF k > Len(triggers) THEN FALSE
    ELSE IF ~IsDeleteTrigger(triggers[k])
    THEN BlockedByTrigger(triggers, k + 1, dbNm, tblName, dbName, dbNameLower)
    ELSE IF triggers[k].table.kind # "UnresolvedTable" THEN TRUE
    ELSE IF TriggerOnTable(triggers[k].table, dbNm, tblName, dbName, dbNameLower)
    THEN TRUE
    ELSE BlockedByTrigger(triggers, k + 1, dbNm, tblName, dbName, dbNameLower)

\* the second loop over a.Catalog.AllDatabases(): the delete triggers
RECURSIVE CheckTriggers(_, _, _, _, _, _, _, _)
CheckTriggers(deletePlan, dbs, i, tblName, dbName, dbNameLower, c, fault) ==
    IF i > Len(dbs)
    THEN [node |-> NilNode, err |-> NoErr, calls |-> c, exit |-> FALSE]
    ELSE
      LET c1 == Call(c, "loadTriggersFromDb", fault) IN
      IF Last(c1).ans # "ok" THEN Return(NilNode, LookupError(Len(c1)), c1)
      ELSE IF BlockedByTrigger(dbs[i].triggers, 1, dbs[i].name, tblName,
                               dbName, dbNameLower)
      THEN Return(deletePlan, NoErr, c1)
      ELSE CheckTriggers(deletePlan, dbs, i + 1, tblName, dbName, dbNameLower,
                         c1, fault)

\* faulty variant: the Truncate is built with the lower-cased database name
RewrittenNodeLowerCased(dbName, dbNameLower, tbl) == NewTruncate(dbNameLower, tbl)

\* the node the rewrite produces
RewrittenNode(dbName, dbNameLower, tbl) == NewTruncate(dbName, tbl)

\* if ok, err := validateTruncate(ctx, a, dbNameLower, tbl); ok { ... }
ConvertIfValid(deletePlan, dbs, cur, dbName, dbNameLower, tbl, c, fault) ==
    LET v == validateTruncate(dbs, cur, dbNameLower, tbl, c, fault) IN
    IF v.ok
    THEN IF v.err # NoErr THEN Return(NilNode, v.err, v.calls)
         ELSE Return(RewrittenNode(dbName, dbNameLower, tbl), NoErr, v.calls)
    ELSE Return(deletePlan, NoErr, v.calls)

deleteToTruncate(deletePlan, dbs, cur, fault) ==
    LET tbl == deletePlan.child IN
    IF tbl.kind # "ResolvedTable" THEN Return(deletePlan, NoErr, <<>>)
    ELSE
      LET tblName == ToLower(tbl.name) IN
      IF HasAutoIncrement(tbl.schema) THEN Return(deletePlan, NoErr, <<>>)
      ELSE
        LET found == FindDatabase(deletePlan, dbs, 1, tblName,
                         [tblFound |-> FALSE, dbName |-> "", ambiguous |-> FALSE],
                         <<>>, fault)
        IN
        IF found.exit THEN Return(found.node, found.err, found.calls)
        ELSE IF ~found.tblFound THEN Return(deletePlan, NoErr, found.calls)
        ELSE
          LET dbName == found.dbName
              dbNameLower == ToLower(dbName)
              trg == CheckTriggers(deletePlan, dbs, 1, tblName, dbName,
                                   dbNameLower, found.calls, fault)
          IN
          IF trg.exit THEN trg
          ELSE ConvertIfValid(deletePlan, dbs, cur, dbName, dbNameLower, tbl,
                              trg.calls, fault)

-----------------------------------------------------------------------------
(* processTruncate *)

processTruncate(n, dbs, cur, fault) ==
    IF n.kind = "DeleteFrom" THEN deleteToTruncate(n, dbs, cur, fault)
    ELSE IF n.kind = "Truncate"
    THEN LET v == validateTruncate(dbs, cur, n.db, n.child, <<>>, fault) IN
         IF v.err # NoErr THEN Return(NilNode, v.err, v.calls)
         ELSE Return(n, NoErr, v.calls)
    ELSE Return(n, NoErr, <<>>)

-----------------------------------------------------------------------------
(* The environment of the pass: catalog set-up, then one run of the pass   *)

RECURSIVE SumOver(_, _)
SumOver(f, i) == IF i = 0 THEN 0 ELSE f[i] + SumOver(f, i - 1)

NumTables(dbs) == SumOver([i \in 1..Len(dbs) |-> Len(dbs[i].tables)], Len(dbs))
NumTriggers(dbs) == SumOver([i \in 1..Len(dbs) |-> Len(dbs[i].triggers)], Len(dbs))
NumKeys(db) == SumOver([j \in 1..Len(db.tables) |-> Len(db.tables[j].fks)], Len(db.tables))
NumForeignKeys(dbs) == SumOver([i \in 1..Len(dbs) |-> NumKeys(dbs[i])], Len(dbs))
NumObjects(dbs) ==
    Len(dbs) + NumTables(dbs) + NumForeignKeys(dbs) + NumTriggers(dbs)

FkNames == <<"fk1", "fk2", "fk3", "fk4", "fk5", "fk6">>

\* the faults that change a run: one of the lookups the fault-free run
\* makes fails; GetTableInsensitive may also report the table missing
FaultsFor(c) ==
    {NoFault}
      \cup {[at |-> k, how |-> "err"] : k \in 1..Len(c)}
      \cup {[at |-> k, how |-> "missing"] :
                k \in {x \in 1..Len(c) : c[x].op = "GetTableInsensitive"}}

PassIdle ==
    /\ pc = "build"
    /\ node = NilNode
    /\ ctxDb = ""
    /\ result = [node |-> NilNode, err |-> NoErr]
    /\ calls = <<>>

WalkIdle ==
    /\ tree = <<>>
    /\ mode = "none"
    /\ stack = <<>>
    /\ log = <<>>

Init ==
    /\ catalog = <<>>
    /\ PassIdle
    /\ WalkIdle

AddDatabase ==
    /\ pc = "build"
    /\ NumObjects(catalog) < MaxObjects
    /\ \E name \in DbNames :
         /\ \A i \in 1..Len(catalog) : catalog[i].name # name
         /\ catalog' = Append(catalog,
                [name |-> name, tables |-> <<>>, triggers |-> <<>>])
    /\ UNCHANGED <<pc, node, ctxDb, result, calls, tree, mode, stack, log>>

CreateTable ==
    /\ pc = "build"
    /\ NumObjects(catalog) < MaxObjects
    /\ \E i \in 1..Len(catalog), name \in TableNames, fkTable \in BOOLEAN :
         /\ \A j \in 1..Len(catalog[i].tables) : catalog[i].tables[j].name # name
         /\ catalog' = [catalog EXCEPT ![i].tables =
                Append(@, [name |-> name, fkTable |-> fkTable, fks |-> <<>>])]
    /\ UNCHANGED <<pc, node, ctxDb, result, calls, tree, mode, stack, log>>

AddForeignKey ==
    /\ pc = "build"
    /\ NumObjects(catalog) < MaxObjects
    /\ \E i \in 1..Len(catalog) :
         \E j \in 1..Len(catalog[i].tables), ref \in RefNames :
           /\ catalog[i].tables[j].fkTable
           /\ catalog' = [catalog EXCEPT ![i].tables[j].fks =
                  Append(@, [name |-> FkNames[Len(@) + 1], refTable |-> ref])]
    /\ UNCHANGED <<pc, node, ctxDb, result, calls, tree, mode, stack, log>>

CreateTrigger ==
    /\ pc = "build"
    /\ NumObjects(catalog) < MaxObjects
    /\ \E i \in 1..Len(catalog), trigger \in Triggers :
         catalog' = [catalog EXCEPT ![i].triggers = Append(@, trigger)]
    /\ UNCHANGED <<pc, node, ctxDb, result, calls, tree, mode, stack, log>>

\* one invocation of the analyzer pass
RunProcessTruncate ==
    /\ pc = "build"
    /\ \E n \in InputNodes, cur \in CurrentDbs :
       \E fault \in FaultsFor(processTruncate(n, catalog, cur, NoFault).calls) :
         LET r == processTruncate(n, catalog, cur, fault) IN
         /\ node' = n
         /\ ctxDb' = cur
         /\ result' = [node |-> r.node, err |-> r.err]
         /\ calls' = r.calls
    /\ pc' = "done"
    /\ UNCHANGED <<catalog, tree, mode, stack, log>>

Next ==
    \/ AddDatabase
    \/ CreateTable
    \/ AddForeignKey
    \/ CreateTrigger
    \/ RunProcessTruncate

Spec == Init /\ [][Next]_vars

-----------------------------------------------------------------------------
(* Vocabulary of the properties of the pass *)

\* two identifiers are the same name, ignoring letter case
SameName(a, b) == ToLower(a) = ToLower(b)

\* the pass ran on a DELETE (a TRUNCATE) of a resolved table
DeleteOfTable ==
    pc = "done" /\ node.kind = "DeleteFrom" /\ node.child.kind = "ResolvedTable"
TruncateOfTable ==
    pc = "done" /\ node.kind = "Truncate" /\ node.child.kind = "ResolvedTable"

TargetHasAutoIncrement ==
    \E i \in 1..Len(node.child.schema) : node.child.schema[i]

\* the tables of database i named like the target
TablesNamedLikeTarget(i) ==
    {j \in 1..Len(catalog[i].tables) :
        SameName(catalog[i].tables[j].name, node.child.name)}

DatabasesWithTarget ==
    {i \in 1..Len(catalog) : TablesNamedLikeTarget(i) # {}}

\* the foreign keys <<j, k>> of database i, held by a table other than the
\* target, that reference the target
KeysReferencingTarget(i) ==
    {jk \in UNION {{<<j, k>> : k \in 1..Len(catalog[i].tables[j].fks)} :
                       j \in 1..Len(catalog[i].tables)} :
        LET tb == catalog[i].tables[jk[1]] IN
        /\ ~SameName(tb.name, node.child.name)
        /\ tb.fkTable
        /\ SameName(tb.fks[jk[2]].refTable, node.child.name)}

\* the delete triggers of database i whose target is a table reference
\* named like the target
DeleteTriggersOnTarget(i) ==
    {k \in 1..Len(catalog[i].triggers) :
        LET tr == catalog[i].triggers[k] IN
        /\ tr.event = "delete"
        /\ tr.table.kind = "UnresolvedTable"
        /\ SameName(tr.table.name, node.child.name)}

\* the delete triggers of database i whose target is no table reference
DeleteTriggersUnresolvable(i) ==
    {k \in 1..Len(catalog[i].triggers) :
        /\ catalog[i].triggers[k].event = "delete"
        /\ catalog[i].triggers[k].table.kind # "UnresolvedTable"}

\* trigger k of database j is on the target table of database i: qualified
\* with i's name, or unqualified and loaded from a database of i's name
TriggerIsOn(j, k, i) ==
    LET tr == catalog[j].triggers[k] IN
    \/ tr.table.database = "" /\ SameName(catalog[j].name, catalog[i].name)
    \/ tr.table.database # "" /\ SameName(tr.table.database, catalog[i].name)

AllLookupsSucceeded == \A k \in 1..Len(calls) : calls[k].ans = "ok"

KeptDelete == result = [node |-> node, err |-> NoErr]

\* the fault of the run, read off the lookups it made
FaultOf(c) ==
    IF \E k \in 1..Len(c) : c[k].ans # "ok"
    THEN LET k == CHOOSE x \in 1..Len(c) : c[x].ans # "ok"
         IN [at |-> k, how |-> c[k].ans]
    ELSE NoFault

-----------------------------------------------------------------------------
(* C2: a DELETE from a table with an auto-increment column is returned     *)
(* unchanged with no error, before any catalog or trigger lookup is made.  *)
C2_AutoIncrementKeepsDelete ==
    (DeleteOfTable /\ TargetHasAutoIncrement) => (KeptDelete /\ calls = <<>>)

\* an auto-increment target that every other condition would let through
C2_Witness ==
    /\ DeleteOfTable /\ TargetHasAutoIncrement
    /\ node.child.truncatable
    /\ Cardinality(DatabasesWithTarget) = 1
    /\ KeptDelete

(* C3: when two or more distinct databases list a table named like the    *)
(* target, a DELETE is never rewritten to a Truncate.                      *)
C3_AmbiguousNeverRewritten ==
    (DeleteOfTable /\ Cardinality(DatabasesWithTarget) >= 2)
        => result.node.kind # "Truncate"

\* two databases hold the table, nothing else stands in the way
C3_Witness ==
    /\ DeleteOfTable /\ ~TargetHasAutoIncrement /\ node.child.truncatable
    /\ Cardinality(DatabasesWithTarget) = 2
    /\ AllLookupsSucceeded
    /\ KeptDelete

(* C1, as claimed (read with every lookup succeeding and a truncatable    *)
(* table): no auto-increment column, no delete trigger on a table named    *)
(* like the target, exactly one database holding the table and no foreign  *)
(* key on it from that database make the pass return Truncate(db, table).  *)
C1_AsClaimed ==
    \A i \in 1..Len(catalog) :
        ( /\ DeleteOfTable /\ ~TargetHasAutoIncrement
          /\ node.child.truncatable /\ AllLookupsSucceeded
          /\ DatabasesWithTarget = {i}
          /\ \A j \in 1..Len(catalog) : DeleteTriggersOnTarget(j) = {}
          /\ KeysReferencingTarget(i) = {} )
        => result = [node |-> NewTruncate(catalog[i].name, node.child),
                     err |-> NoErr]

\* what the rewrite needs of the catalog, the table being in database i
RewriteConditions(i) ==
    /\ DeleteOfTable /\ ~TargetHasAutoIncrement
    /\ node.child.truncatable /\ AllLookupsSucceeded
    /\ DatabasesWithTarget = {i}
    /\ Cardinality(TablesNamedLikeTarget(i)) = 1
    /\ \A j \in 1..Len(catalog) :
          /\ DeleteTriggersUnresolvable(j) = {}
          /\ \A k \in DeleteTriggersOnTarget(j) : ~TriggerIsOn(j, k, i)
          /\ SameName(catalog[j].name, catalog[i].name)
                => KeysReferencingTarget(j) = {}

(* C1, amended: when moreover the table supports truncation, one table     *)
(* name in all (not only one database) matches, no delete trigger has a    *)
(* target that is no table reference, no database named like the table's  *)
(* holds a referencing foreign key and every lookup succeeds, the pass     *)
(* returns a Truncate of the same table with the database's name as listed.*)
C1_RewritesToTruncate ==
    \A i \in 1..Len(catalog) :
        RewriteConditions(i)
            => result = [node |-> NewTruncate(catalog[i].name, node.child),
                         err |-> NoErr]

\* a rewrite in a catalog of two databases, the table in the one named "D"
C1_Witness ==
    /\ pc = "done"
    /\ Len(catalog) = 2
    /\ \E i \in 1..Len(catalog) :
          /\ RewriteConditions(i)
          /\ catalog[i].name = "D"
          /\ result.node = NewTruncate("D", node.child)
          /\ node.child.name = "t"

\* the catalog without its insert and update triggers
WithoutOtherTriggers(dbs) ==
    [i \in 1..Len(dbs) |->
        [dbs[i] EXCEPT !.triggers =
            SelectSeq(@, LAMBDA tr : tr.event = "delete")]]

(* C4: a delete trigger of database d on the table t of d (unqualified,   *)
(* or qualified with d's name) keeps a DELETE FROM t from being rewritten; *)
(* insert and update triggers change nothing: the pass returns what it     *)
(* returns on the catalog without them.                                    *)
C4_OnlyDeleteTriggersBlock ==
    /\ \A i \in 1..Len(catalog) :
          ( /\ DeleteOfTable
            /\ i \in DatabasesWithTarget
            /\ \E k \in DeleteTriggersOnTarget(i) :
                  LET q == catalog[i].triggers[k].table.database IN
                  q = "" \/ SameName(q, catalog[i].name) )
          => result.node.kind # "Truncate"
    /\ pc = "done" =>
          LET r == processTruncate(node, WithoutOtherTriggers(catalog), ctxDb,
                                   FaultOf(calls))
          IN result = [node |-> r.node, err |-> r.err]

\* an update trigger on the table, which is rewritten all the same
C4_Witness ==
    /\ DeleteOfTable
    /\ result.node.kind = "Truncate"
    /\ \E i \in DatabasesWithTarget :
          \E k \in 1..Len(catalog[i].triggers) :
             /\ catalog[i].triggers[k].event = "update"
             /\ catalog[i].triggers[k].table = UnresolvedTable("T", "")

\* the effective database of an explicit TRUNCATE
TruncateDatabase == IF node.db = "" THEN ToLower(ctxDb) ELSE ToLower(node.db)

\* a foreign key of another table of the TRUNCATE's database references it
TruncateReferenced ==
    \E i \in 1..Len(catalog) :
        ToLower(catalog[i].name) = TruncateDatabase /\ KeysReferencingTarget(i) # {}

\* the error names the table, a referencing key and the table holding it
NamesReferencingKey(err) ==
    /\ err.kind = "ErrTruncateReferencedFromForeignKey"
    /\ \E i \in 1..Len(catalog) :
          /\ ToLower(catalog[i].name) = TruncateDatabase
          /\ \E jk \in KeysReferencingTarget(i) :
                err.args = <<ToLower(node.child.name),
                             catalog[i].tables[jk[1]].fks[jk[2]].name,
                             catalog[i].tables[jk[1]].name>>

\* the table is in database i alone, and only a foreign key of a database
\* named like i stands in the way of the rewrite
OnlyForeignKeyBlocks(i) ==
    /\ DeleteOfTable /\ ~TargetHasAutoIncrement
    /\ node.child.truncatable /\ AllLookupsSucceeded
    /\ DatabasesWithTarget = {i}
    /\ Cardinality(TablesNamedLikeTarget(i)) = 1
    /\ \A j \in 1..Len(catalog) :
          /\ DeleteTriggersUnresolvable(j) = {}
          /\ \A k \in DeleteTriggersOnTarget(j) : ~TriggerIsOn(j, k, i)
    /\ KeysReferencingTarget(i) # {}

(* C5, as claimed (for a truncatable table): a foreign key referencing t   *)
(* from another table of t's database makes an explicit TRUNCATE fail with *)
(* ErrTruncateReferencedFromForeignKey(t, key, table), and makes a DELETE  *)
(* that is otherwise rewritable come back unchanged with no error.         *)
C5_AsClaimed ==
    /\ (TruncateOfTable /\ node.child.truncatable /\ TruncateReferenced)
          => (result.node = NilNode /\ NamesReferencingKey(result.err))
    /\ \A i \in 1..Len(catalog) : OnlyForeignKeyBlocks(i) => KeptDelete

(* C5, amended: the same, provided every lookup the pass makes succeeds    *)
(* and the table supports truncation; the error carries the lower-cased    *)
(* table name, the constraint name and the referencing table's name.       *)
C5_ForeignKeyBlocks ==
    /\ ( /\ TruncateOfTable /\ node.child.truncatable /\ TruncateReferenced
         /\ AllLookupsSucceeded )
          => (result.node = NilNode /\ NamesReferencingKey(result.err))
    /\ \A i \in 1..Len(catalog) : OnlyForeignKeyBlocks(i) => KeptDelete

\* an explicit TRUNCATE "T" refused for a key held by u
C5_Witness ==
    /\ TruncateOfTable /\ TruncateReferenced /\ AllLookupsSucceeded
    /\ node.child.name = "T"
    /\ result.err = ErrTruncateReferencedFromForeignKey("t", "fk1", "u")

\* a DELETE kept only because of the foreign key
C5_WitnessDelete ==
    \E i \in 1..Len(catalog) : OnlyForeignKeyBlocks(i) /\ KeptDelete

(* C8, as claimed: on a DELETE, whenever no Truncate is produced the       *)
(* original Delete comes back with a nil error.                            *)
C8_AsClaimed ==
    (pc = "done" /\ node.kind = "DeleteFrom" /\ result.node.kind # "Truncate")
        => KeptDelete

(* C8, amended: on a DELETE, whenever no Truncate is produced and every    *)
(* lookup made succeeded (none failed, no listed table was missing), the   *)
(* original Delete comes back with a nil error.                            *)
C8_NoErrorWithoutLookupFailure ==
    ( /\ pc = "done" /\ node.kind = "DeleteFrom"
      /\ result.node.kind # "Truncate"
      /\ AllLookupsSucceeded )
        => KeptDelete

\* the foreign-key check refused the rewrite and nothing surfaced
C8_Witness ==
    /\ DeleteOfTable /\ AllLookupsSucceeded /\ KeptDelete
    /\ Len(calls) > 0
    /\ Last(calls).op = "GetForeignKeys"

\* the catalog with every identifier in lower case
LowerCased(dbs) ==
    [i \in 1..Len(dbs) |->
        [name |-> ToLower(dbs[i].name),
         tables |-> [j \in 1..Len(dbs[i].tables) |->
            [name |-> ToLower(dbs[i].tables[j].name),
             fkTable |-> dbs[i].tables[j].fkTable,
             fks |-> [k \in 1..Len(dbs[i].tables[j].fks) |->
                [name |-> dbs[i].tables[j].fks[k].name,
                 refTable |-> ToLower(dbs[i].tables[j].fks[k].refTable)]]]],
         triggers |-> [k \in 1..Len(dbs[i].triggers) |->
            IF dbs[i].triggers[k].table.kind = "UnresolvedTable"
            THEN [event |-> dbs[i].triggers[k].event,
                  table |-> UnresolvedTable(
                      ToLower(dbs[i].triggers[k].table.name),
                      ToLower(dbs[i].triggers[k].table.database))]
            ELSE dbs[i].triggers[k]]]]

\* rewrite, keep the node, or error
OutcomeKind(r) ==
    IF r.err # NoErr THEN r.err.kind
    ELSE IF r.node.kind = "Truncate" THEN "Truncate" ELSE "kept"

(* C9: every identifier comparison is case-insensitive: the outcome is the *)
(* one on the lower-cased catalog, and an unqualified delete trigger on t  *)
(* loaded from a database named like the table's database, ignoring case,  *)
(* keeps the DELETE from being rewritten.                                  *)
C9_CaseInsensitive ==
    /\ DeleteOfTable =>
          OutcomeKind(result) =
              OutcomeKind(processTruncate(node, LowerCased(catalog), ctxDb,
                                          FaultOf(calls)))
    /\ \A i, j \in 1..Len(catalog) :
          ( /\ DeleteOfTable
            /\ DatabasesWithTarget = {i}
            /\ SameName(catalog[j].name, catalog[i].name)
            /\ \E k \in DeleteTriggersOnTarget(j) :
                  catalog[j].triggers[k].table.database = "" )
          => result.node.kind # "Truncate"

(* C10: when a lookup the pass made failed, the pass returns that error    *)
(* and no node, for a DELETE and for a TRUNCATE; the failed lookup is the  *)
(* last one made.                                                          *)
C10_LookupErrorsPropagate ==
    \A k \in 1..Len(calls) :
        (pc = "done" /\ calls[k].ans = "err")
            => /\ result = [node |-> NilNode, err |-> LookupError(k)]
               /\ k = Len(calls)

\* db.GetTableNames failed inside validateTruncate, on a DELETE
C10_Witness ==
    /\ DeleteOfTable
    /\ Len(calls) > 2 * Len(catalog)
    /\ Last(calls) = [op |-> "GetTableNames", ans |-> "err"]
    /\ result.node = NilNode

-----------------------------------------------------------------------------
(* The walkers of sql/walk.go.  tree[n] lists the children of node n, the  *)
(* root is node 1.  A frame of the stack is one activation of Walk         *)
(* (WalkWithNode, nodeWalk): its node, the visitor it holds, the next      *)
(* child to walk and where it stands.                                      *)

Nil == "nil"
Modes == {"Walk", "WalkWithNode", "Inspect", "InspectNode"}

\* the visitors a traversal may meet: two Visitor values for Walk and
\* WalkWithNode, the one predicate f for Inspect and InspectNode
VisitorsOf(m) == IF m \in {"Walk", "WalkWithNode"} THEN {"v", "w"} ELSE {"f"}

\* func (f inspector) Visit(expr): f itself when f(expr) holds, else nil
inspectorVisit(f, holds) == IF holds THEN f ELSE Nil

\* what a call v.Visit(expr) (or f(expr)) may return in the walker m
Continuations(m, v) ==
    IF m \in {"Walk", "WalkWithNode"}
    THEN VisitorsOf(m) \cup {Nil}
    ELSE {inspectorVisit(v, b) : b \in BOOLEAN}

\* the Node argument of a NodeVisitor call: n on a visit, nil at the exit
OwnerArg(m, expr) == IF m = "WalkWithNode" /\ expr # 0 THEN "n" ELSE Nil

\* one call on a visitor: the visitor, its arguments (expr 0 is nil), and
\* what it returned
VisitCall(m, v, expr, ret) ==
    [v |-> v, owner |-> OwnerArg(m, expr), expr |-> expr, ret |-> ret]

Frame(expr, v, at) == [expr |-> expr, v |-> v, k |-> 1, at |-> at]

Top == stack[Len(stack)]
Pop(st) == SubSeq(st, 1, Len(st) - 1)

\* the nodes from the root down the last children
RECURSIVE RightmostPath(_, _)
RightmostPath(tr, n) ==
    IF tr[n] = <<>> THEN {n}
    ELSE {n} \cup RightmostPath(tr, tr[n][Len(tr[n])])

\* the environment grows the tree: a new last child, nodes numbered as added
AddNode ==
    /\ mode = "none"
    /\ Len(tree) < MaxNodes
    /\ IF tree = <<>>
       THEN tree' = <<(<<>>)>>
       ELSE \E parent \in RightmostPath(tree, 1) :
              tree' = Append([tree EXCEPT ![parent] = Append(@, Len(tree) + 1)],
                             <<>>)
    /\ UNCHANGED <<catalog, pc, node, ctxDb, result, calls, mode, stack, log>>

\* Walk(v, expr), WalkWithNode(v, n, expr), Inspect(expr, f),
\* InspectNode(node, f) is called on the root
StartWalk ==
    /\ mode = "none"
    /\ tree # <<>>
    /\ \E m \in Modes, v \in {"v", "f"} :
         /\ v \in VisitorsOf(m)
         /\ mode' = m
         /\ stack' = <<Frame(1, v, "visit")>>
    /\ UNCHANGED <<catalog, pc, node, ctxDb, result, calls, tree, log>>

\* faulty variant: the children are walked with the visitor that was called
AfterVisitKeepsVisitor(st, ret) ==
    IF ret = Nil THEN Pop(st)
    ELSE [st EXCEPT ![Len(st)] = [@ EXCEPT !.at = "children"]]

\* faulty variant: a pruned node skips its children but still gets the call with nil
AfterVisitExitsPruned(st, ret) ==
    IF ret = Nil
    THEN [st EXCEPT ![Len(st)] =
             [@ EXCEPT !.k = Len(tree[st[Len(st)].expr]) + 1,
                       !.at = "children"]]
    ELSE [st EXCEPT ![Len(st)] = [@ EXCEPT !.v = ret, !.at = "children"]]

\* the frame after v.Visit(expr) returned ret: gone when ret is nil, else
\* holding ret and about to range over the children
AfterVisit(st, ret) ==
    IF ret = Nil THEN Pop(st)
    ELSE [st EXCEPT ![Len(st)] = [@ EXCEPT !.v = ret, !.at = "children"]]

\* if v = v.Visit(expr); v == nil { return }
Visit ==
    /\ stack # <<>>
    /\ Top.at = "visit"
    /\ \E ret \in Continuations(mode, Top.v) :
         /\ log' = Append(log, VisitCall(mode, Top.v, Top.expr, ret))
         /\ stack' = AfterVisit(stack, ret)
    /\ UNCHANGED <<catalog, pc, node, ctxDb, result, calls, tree, mode>>

\* the frame pushed for child k of the top frame
ChildFrame(fr) == Frame(tree[fr.expr][fr.k], fr.v, "visit")

\* for _, child := range expr.Children() { Walk(v, child) }
WalkChild ==
    /\ stack # <<>>
    /\ Top.at = "children"
    /\ Top.k <= Len(tree[Top.expr])
    /\ stack' = Append([stack EXCEPT ![Len(stack)].k = @ + 1], ChildFrame(Top))
    /\ UNCHANGED <<catalog, pc, node, ctxDb, result, calls, tree, mode, log>>

\* the stack after the call that ends an activation
AfterExit(st) == Pop(st)

\* v.Visit(nil), v.Visit(nil, nil), _ = v(nil): the result is dropped
VisitNil ==
    /\ stack # <<>>
    /\ Top.at = "children"
    /\ Top.k > Len(tree[Top.expr])
    /\ \E ret \in Continuations(mode, Top.v) :
         log' = Append(log, VisitCall(mode, Top.v, 0, ret))
    /\ stack' = AfterExit(stack)
    /\ UNCHANGED <<catalog, pc, node, ctxDb, result, calls, tree, mode>>

WalkNext ==
    \/ AddNode
    \/ StartWalk
    \/ Visit
    \/ WalkChild
    \/ VisitNil

WalkSpec == Init /\ [][WalkNext]_vars

-----------------------------------------------------------------------------
(* Vocabulary of the properties of the walkers *)

Nodes == 1..Len(tree)

ChildrenOf(n) == {tree[n][i] : i \in 1..Len(tree[n])}

RECURSIVE Descendants(_)
Descendants(n) ==
    ChildrenOf(n) \cup UNION {Descendants(c) : c \in ChildrenOf(n)}

ParentOf(n) == CHOOSE q \in Nodes : n \in ChildrenOf(q)

\* the children of n's parent listed after n
LaterSiblings(n) ==
    LET sib == tree[ParentOf(n)] IN
    {sib[j] : j \in {x \in 1..Len(sib) : \E i \in 1..(x - 1) : sib[i] = n}}

\* depth-first pre-order of the subtree of n, children in listed order
RECURSIVE PreOrder(_)
RECURSIVE PreOrderAll(_, _)
PreOrder(n) == <<n>> \o PreOrderAll(tree[n], 1)
PreOrderAll(cs, i) ==
    IF i > Len(cs) THEN <<>> ELSE PreOrder(cs[i]) \o PreOrderAll(cs, i + 1)

\* the place of node n in the order
Rank(order, n) == CHOOSE i \in 1..Len(order) : order[i] = n

Positions == 1..Len(log)
IsVisit(pos) == log[pos].expr # 0
IsExit(pos) == log[pos].expr = 0
Descends(pos) == IsVisit(pos) /\ log[pos].ret # Nil
Prunes(pos) == IsVisit(pos) /\ log[pos].ret = Nil

\* the position of the visit of node n, 0 when n was not visited
VisitOf(n) ==
    IF \E pos \in Positions : log[pos].expr = n
    THEN CHOOSE pos \in Positions : log[pos].expr = n
    ELSE 0

\* open[q], for q up to pos: the subtrees entered and not yet left after
\* the first q calls
RECURSIVE OpenUpTo(_)
OpenUpTo(pos) ==
    IF pos = 0 THEN <<>>
    ELSE LET open == OpenUpTo(pos - 1)
             before == IF pos = 1 THEN 0 ELSE open[pos - 1]
         IN Append(open, before + (IF Descends(pos) THEN 1 ELSE 0)
                                - (IF IsExit(pos) THEN 1 ELSE 0))

Open == OpenUpTo(Len(log))

\* the call that closes the subtree entered at pos, 0 when none has yet
ExitIn(open, pos) ==
    LET closing == {q \in Positions : q > pos /\ open[q] < open[pos]} IN
    IF closing = {} THEN 0
    ELSE CHOOSE q \in closing : \A x \in closing : q <= x

ExitOf(pos) == ExitIn(Open, pos)

Walking == mode # "none"
WalkDone == mode # "none" /\ stack = <<>>

(* C6: once the visitor returns nil for a node, no descendant of the node  *)
(* is ever visited; when the traversal has ended, every later sibling of   *)
(* the node has been visited, after it, on the visitor the parent's visit  *)
(* returned; and the nodes visited are exactly the root and the children   *)
(* of the nodes whose visit returned a visitor.                            *)
C6_PruneSkipsOnlySubtree ==
    /\ \A pos \in Positions :
          (Walking /\ Prunes(pos)) =>
              \A q \in Positions : log[q].expr \notin Descendants(log[pos].expr)
    /\ \A pos \in Positions :
          (WalkDone /\ Prunes(pos) /\ log[pos].expr # 1) =>
              \A sib \in LaterSiblings(log[pos].expr) :
                  /\ VisitOf(sib) > pos
                  /\ log[VisitOf(sib)].v = log[VisitOf(ParentOf(log[pos].expr))].ret
    /\ WalkDone =>
          \A n \in Nodes \ {1} :
              (VisitOf(n) # 0) <=>
                  (VisitOf(ParentOf(n)) # 0 /\ Descends(VisitOf(ParentOf(n))))

\* Walk pruned node 2, which has a child, and went on to its sibling with
\* the visitor "w" the root's visit returned
C6_Witness ==
    /\ WalkDone /\ mode = "Walk"
    /\ Len(tree) >= 4 /\ Len(log) >= 2
    /\ tree[2] # <<>>
    /\ LaterSiblings(2) # {}
    /\ log[2].expr = 2 /\ Prunes(2)
    /\ log[1].v = "v" /\ log[1].ret = "w"
    /\ \E pos \in Positions : log[pos].expr \in LaterSiblings(2) /\ log[pos].v = "w"

(* C7: the calls are properly nested.  Every visit that returned a visitor *)
(* is closed by exactly one call with nil, made on the visitor returned,   *)
(* after the visits of the node's descendants and of nothing else, and     *)
(* before the visit of any later sibling; a pruned visit is closed by      *)
(* none; nodes are visited once, in depth-first pre-order; the owner is    *)
(* passed on visits of WalkWithNode only; what a call with nil returns     *)
(* is read nowhere: each visit is made on the visitor the parent's visit   *)
(* returned.                                                               *)
C7_ProperlyNested ==
    LET open == Open IN
    /\ \A pos \in Positions : Walking => open[pos] >= 0
    /\ WalkDone => open[Len(log)] = 0
    /\ \A pos \in Positions :
          (Walking /\ IsExit(pos)) => log[pos].owner = Nil
    /\ \A pos \in Positions :
          (Walking /\ IsVisit(pos)) =>
              /\ log[pos].owner = IF mode = "WalkWithNode" THEN "n" ELSE Nil
              /\ log[pos].expr # 1 =>
                    /\ VisitOf(ParentOf(log[pos].expr)) \in 1..(pos - 1)
                    /\ log[pos].v = log[VisitOf(ParentOf(log[pos].expr))].ret
    /\ Walking =>
          LET order == PreOrder(1) IN
          \A pos, q \in Positions :
              (IsVisit(pos) /\ IsVisit(q) /\ pos < q) =>
                  Rank(order, log[pos].expr) < Rank(order, log[q].expr)
    /\ \A pos \in Positions :
          (Walking /\ Descends(pos)) =>
              LET n == log[pos].expr
                  e == ExitIn(open, pos)
              IN /\ WalkDone => e # 0
                 /\ e # 0 =>
                      /\ IsExit(e)
                      /\ log[e].v = log[pos].ret
                      /\ \A x \in Positions :
                            IsVisit(x) =>
                               ((pos < x /\ x < e) <=> log[x].expr \in Descendants(n))
                 /\ e = 0 =>
                      \A x \in Positions :
                         (IsVisit(x) /\ x > pos) => log[x].expr \in Descendants(n)
    /\ \A pos \in Positions :
          (Walking /\ Prunes(pos) /\ pos < Len(log) /\ IsExit(pos + 1)) =>
              /\ log[pos].expr # 1
              /\ ExitIn(open, VisitOf(ParentOf(log[pos].expr))) = pos + 1

\* a finished traversal that entered two subtrees, the inner one with a
\* child, and pruned a node right before an exit
C7_Witness ==
    /\ WalkDone /\ mode = "InspectNode"
    /\ Len(tree) >= 4
    /\ \E pos \in Positions :
          /\ Descends(pos) /\ log[pos].expr # 1 /\ tree[log[pos].expr] # <<>>
          /\ ExitOf(pos) > pos + 1
    /\ \E pos \in Positions : Prunes(pos) /\ pos < Len(log) /\ IsExit(pos + 1)
    /\ \E pos \in Positions : IsExit(pos) /\ log[pos].ret = Nil

====
